---- MODULE Spec2Model ----
(***************************************************************************)
(* File converter server (src/main.py): a registry of converter modules,   *)
(* a REST adapter (POST /convert) and an MCP JSON-RPC adapter (POST /mcp)  *)
(* that resolve a module for an (input format, output format) pair, stage  *)
(* the payload in temporary files, call the module and answer.             *)
(*                                                                         *)
(* Strings are sequences of one-character strings, so that str.lower(),    *)
(* str.startswith('.'), os.path.splitext and base64.b64decode are computed *)
(* character by character.                                                 *)
(***************************************************************************)
EXTENDS Integers, Sequences, FiniteSets, TLC

\* ------------------------------------------------------------------ bounds

\* Number of requests the server receives in a run.
MaxRequests == 2
\* Largest number of modules the registry holds.
MaxModules == 2

\* The handler invocations of a run: Spec serves its requests one after the
\* other, each in the same slot.
Reqs == {1}

\* ----------------------------------------------------------------- strings

\* Python's None, where a string (a sequence of characters) may stand, where
\* a name (method, tool) may stand, and where a dict may stand.
None == <<"None">>
NoneName == "None"
NoneDict == [None |-> TRUE]

UpperChars == <<"A","B","C","D","E","F","G","H","I","J","K","L","M",
                "N","O","P","Q","R","S","T","U","V","W","X","Y","Z">>
LowerChars == <<"a","b","c","d","e","f","g","h","i","j","k","l","m",
                "n","o","p","q","r","s","t","u","v","w","x","y","z">>
DigitChars == <<"0","1","2","3","4","5","6","7","8","9">>

\* str.lower() on one character.
LowerChar(c) ==
    IF \E i \in 1..Len(UpperChars) : UpperChars[i] = c
    THEN LowerChars[CHOOSE i \in 1..Len(UpperChars) : UpperChars[i] = c]
    ELSE c

\* str.lower().
Lower(s) == [i \in 1..Len(s) |-> LowerChar(s[i])]

\* s.startswith('.').
StartsWithDot(s) == Len(s) > 0 /\ s[1] = "."

\* "Ensure formats start with dot": the only normalisation the MCP arguments
\* and the REST output_format field receive.
EnsureDot(s) == IF StartsWithDot(s) THEN s ELSE <<".">> \o s

\* str.rfind(c), 1-based; 0 when c does not occur.
RFind(s, c) ==
    IF \E i \in 1..Len(s) : s[i] = c
    THEN CHOOSE i \in 1..Len(s) : s[i] = c /\ \A j \in (i+1)..Len(s) : s[j] # c
    ELSE 0

\* os.path.splitext(p): <<root, ext>>.  The extension starts at the last dot
\* of the last path component, unless only dots precede it there.
SplitExt(p) ==
    LET sepIndex == RFind(p, "/")
        dotIndex == RFind(p, ".")
    IN  IF dotIndex > sepIndex
           /\ \E k \in (sepIndex+1)..(dotIndex-1) : p[k] # "."
        THEN <<SubSeq(p, 1, dotIndex - 1), SubSeq(p, dotIndex, Len(p))>>
        ELSE <<p, <<>> >>

\* The REST adapter's input format: the filename's extension, lowercased.
RestInputFormat(filename) == Lower(SplitExt(filename)[2])

\* ------------------------------------------------------------------ base64

B64Chars == UpperChars \o LowerChars \o DigitChars \o <<"+", "/">>

IsB64Char(c) == \E i \in 1..Len(B64Chars) : B64Chars[i] = c

\* The 6-bit value of a base64 alphabet character.
B64Value(c) == (CHOOSE i \in 1..Len(B64Chars) : B64Chars[i] = c) - 1

\* binascii.a2b_base64 in its default (non-strict) mode, one character at a
\* time.  st = [quad, left, pads, out, stop]: position in the quad, bits left
\* over, pad characters seen, bytes produced, and whether a complete pad
\* sequence ended the decoding.
B64Step(st, c) ==
    IF st.stop THEN st
    ELSE IF c = "=" THEN
        IF st.quad >= 2 /\ st.quad + st.pads + 1 >= 4
        THEN [st EXCEPT !.stop = TRUE, !.quad = 0]
        ELSE IF st.quad >= 2 THEN [st EXCEPT !.pads = st.pads + 1] ELSE st
    ELSE IF ~IsB64Char(c) THEN st
    ELSE LET v == B64Value(c) IN
         CASE st.quad = 0 -> [st EXCEPT !.quad = 1, !.left = v, !.pads = 0]
           [] st.quad = 1 -> [st EXCEPT !.quad = 2, !.pads = 0, !.left = v % 16,
                                 !.out = Append(st.out, st.left * 4 + v \div 16)]
           [] st.quad = 2 -> [st EXCEPT !.quad = 3, !.pads = 0, !.left = v % 4,
                                 !.out = Append(st.out, st.left * 16 + v \div 4)]
           [] st.quad = 3 -> [st EXCEPT !.quad = 0, !.pads = 0, !.left = 0,
                                 !.out = Append(st.out, st.left * 64 + v)]

RECURSIVE B64Fold(_, _)
B64Fold(st, s) == IF s = <<>> THEN st ELSE B64Fold(B64Step(st, Head(s)), Tail(s))

\* base64.b64decode(s): [ok |-> TRUE, data |-> bytes], or ok = FALSE when it
\* raises binascii.Error (a quad left incomplete).
B64Decode(s) ==
    LET st == B64Fold([quad |-> 0, left |-> 0, pads |-> 0, out |-> <<>>, stop |-> FALSE], s)
    IN  IF st.quad # 0 THEN [ok |-> FALSE, data |-> <<>>]
        ELSE [ok |-> TRUE, data |-> st.out]

\* ------------------------------------------------------------------- dicts

\* A Python dict is a function on the keys it holds; {} is the empty one.
EmptyDict == [k \in {} |-> NoneDict]

\* dict.get(key, default).
DictGet(d, key, default) == IF key \in DOMAIN d THEN d[key] ELSE default

\* Python truthiness of an argument value: None and '' are falsy.
Truthy(v) == v # None /\ v # <<>>

\* x in list.
InList(v, list) == \E i \in 1..Len(list) : list[i] = v

\* ---------------------------------------------------------------- registry

PNG == <<".", "p", "n", "g">>
JPG == <<".", "j", "p", "g">>
GIF == <<".", "g", "i", "f">>

\* SUPPORTED_FORMATS of the converter modules a registry may hold: an image
\* module serving .png -> .jpg and a wider one that also serves that pair.
ModuleFormats ==
    { [input |-> <<PNG>>, output |-> <<JPG>>],
      [input |-> <<PNG, GIF>>, output |-> <<JPG, GIF>>] }

\* registry.modules: every ordered list of at most MaxModules modules.  A
\* module is referred to by its position in the list.
Registries ==
    UNION { [1..n -> ModuleFormats] : n \in 0..MaxModules }

\* A lookup condition that takes a module serving either side of the pair.
ModuleMatchesEither(formats, input_format, output_format) ==
    \/ InList(input_format, DictGet(formats, "input", <<>>))
    \/ InList(output_format, DictGet(formats, "output", <<>>))

\* input_format in formats.get("input", []) and
\* output_format in formats.get("output", [])
ModuleMatches(formats, input_format, output_format) ==
    /\ InList(input_format, DictGet(formats, "input", <<>>))
    /\ InList(output_format, DictGet(formats, "output", <<>>))

\* A lookup loop without its break: the last matching module stays in module.
FindModuleNoBreak(modules, input_format, output_format) ==
    LET RECURSIVE Scan(_, _)
        Scan(k, module) ==
            IF k > Len(modules) THEN module
            ELSE IF ModuleMatches(modules[k], input_format, output_format)
                 THEN Scan(k + 1, k)
                 ELSE Scan(k + 1, module)
    IN  Scan(1, 0)

\* The "Find appropriate module" loop of both handlers: the position of the
\* module it breaks at, 0 (module = None) when it ends without a match.
FindModule(modules, input_format, output_format) ==
    LET RECURSIVE Scan(_)
        Scan(k) ==
            IF k > Len(modules) THEN 0
            ELSE IF ModuleMatches(modules[k], input_format, output_format)
                 THEN k
                 ELSE Scan(k + 1)
    IN  Scan(1)

\* supported_conversions of tools/list: "<input> to <output>" for every
\* module, input and output in list order, same-to-same pairs left out.
SupportedConversions(modules) ==
    LET RECURSIVE Outs(_, _, _)
        Outs(inf, outs, j) ==
            IF j > Len(outs) THEN <<>>
            ELSE (IF inf # outs[j] THEN << <<inf, "to", outs[j]>> >> ELSE <<>>)
                 \o Outs(inf, outs, j + 1)
        RECURSIVE Ins(_, _, _)
        Ins(ins, outs, i) ==
            IF i > Len(ins) THEN <<>>
            ELSE Outs(ins[i], outs, 1) \o Ins(ins, outs, i + 1)
        RECURSIVE Mods(_)
        Mods(k) ==
            IF k > Len(modules) THEN <<>>
            ELSE Ins(DictGet(modules[k], "input", <<>>),
                     DictGet(modules[k], "output", <<>>), 1) \o Mods(k + 1)
    IN  Mods(1)

\* --------------------------------------------------------------- responses

\* JSON-RPC error codes the MCP handlers answer with.
MethodNotFound == -32601
InvalidParams == -32602
InternalError == -32603

\* MCPResponse(id=..., result=...): the model's defaults fill the other field
\* in (result: Dict = {}, error: Dict = None), and every field is serialised.
MCPResult(id, result) ==
    [jsonrpc |-> "2.0", id |-> id, result |-> result, error |-> NoneDict]

\* MCPResponse(id=..., error={"code": ..., "message": ...}).
MCPError(id, code, message) ==
    [jsonrpc |-> "2.0", id |-> id, result |-> EmptyDict,
     error |-> [code |-> code, message |-> message]]

\* raise HTTPException(status_code=..., detail=...).
HTTPException(status_code, detail) ==
    [kind |-> "HTTPException", status_code |-> status_code, detail |-> detail]

\* FileResponse(output_path, filename=output_filename, ...): built without
\* looking at the file.
FileResponse(path, filename) ==
    [kind |-> "FileResponse", status_code |-> 200, path |-> path,
     filename |-> filename, media_type |-> "application/octet-stream"]

\* An exception that leaves convert_file uncaught: the server answers 500.
Unhandled(exc) ==
    [kind |-> "Unhandled", status_code |-> 500, exception |-> exc]

\* output_format: str = Form(...) with the field not sent: the request is
\* refused before the handler runs.
ValidationError ==
    [kind |-> "RequestValidationError", status_code |-> 422, detail |-> "field required"]

\* ---------------------------------------------------------------- requests

\* The ids a client may give its request (opaque tokens).
Ids == {"1", "2"}

\* Raw format strings a client may send: with and without the leading dot,
\* in lower and in upper case, and a format no .png module writes.
RawInputFormats == { <<"p","n","g">>, PNG, <<".","P","N","G">>, GIF }
RawOutputFormats == { <<>>, <<"j","p","g">>, <<".","J","P","G">>, GIF }

\* file_content strings: "QUJD" (base64 of "ABC"), "Q" (b64decode raises)
\* and "!!!!" (no base64 character at all).
FileContents == { <<"Q","U","J","D">>, <<"Q">>, <<"!","!","!","!">> }

\* The arguments dict of a convert_file call; a key whose value is None here
\* is left out of the dict.
Arguments(inf, outf, content) ==
    LET all == [input_format |-> inf, output_format |-> outf, file_content |-> content]
    IN  [k \in {key \in DOMAIN all : all[key] # None} |-> all[k]]

ConvertArguments ==
    { Arguments(inf, outf, content) :
        inf \in RawInputFormats \cup {None},
        outf \in RawOutputFormats,
        content \in FileContents \cup {None} }

MCPRequest(id, method, params) ==
    [adapter |-> "mcp", jsonrpc |-> "2.0", id |-> id, method |-> method, params |-> params]

McpRequests ==
    { MCPRequest(id, method, EmptyDict) :
        id \in Ids, method \in {"initialize", "tools/list", "tools/call", "resources/list"} }
    \cup
    { MCPRequest(id, "tools/call", [name |-> name]) :
        id \in Ids, name \in {"list_supported_formats", "delete_file"} }
    \cup
    { MCPRequest(id, "tools/call", [name |-> "convert_file", arguments |-> a]) :
        id \in Ids, a \in ConvertArguments }

\* POST /convert: the uploaded file's name and the output_format form field
\* (None: the field is not sent).
Filenames ==
    { <<"a",".","p","n","g">>, <<"a",".","P","N","G">>, <<"a",".","g","i","f">>, <<"a">> }

RestRequests ==
    { [adapter |-> "rest", filename |-> f, output_format |-> o] :
        f \in Filenames, o \in RawOutputFormats \cup {None} }

\* ------------------------------------------------------------------- state

VARIABLES
    registry,   \* registry.modules, built once at start
    fs,         \* the temporary directory: name -> request whose file it is, 0 = no file
    tmpCount,   \* names tempfile has handed out so far
    served,     \* requests received so far
    pc,         \* where each request's handler stands
    req,        \* the request each slot received
    loc,        \* the handler's local variables
    resp,       \* the response the handler returned
    hist        \* what the handler did: lookups, convert calls, files created

vars == <<registry, fs, tmpCount, served, pc, req, loc, resp, hist>>

\* A request creates at most two temporary files.
Names == 1..(2 * MaxRequests)

NoReq == [adapter |-> "none"]
NoResp == [kind |-> "none"]
NoLoc ==
    [input_format |-> None, output_format |-> None, module |-> 0,
     file_data |-> <<>>, output_filename |-> None,
     input_path |-> 0, output_path |-> 0, pending |-> NoResp]
NoHist == [looked |-> FALSE, invoked |-> 0, created |-> {}, failure |-> "none"]

Init ==
    /\ registry \in Registries
    /\ fs = [n \in Names |-> 0]
    /\ tmpCount = 0
    /\ served = 0
    /\ pc = [r \in Reqs |-> "idle"]
    /\ req = [r \in Reqs |-> NoReq]
    /\ loc = [r \in Reqs |-> NoLoc]
    /\ resp = [r \in Reqs |-> NoResp]
    /\ hist = [r \in Reqs |-> NoHist]

\* The handler of r returns (or raises) response, having done h.
Return(r, response, h) ==
    /\ pc' = [pc EXCEPT ![r] = "done"]
    /\ resp' = [resp EXCEPT ![r] = response]
    /\ hist' = [hist EXCEPT ![r] = h]

\* Slot r receives request q.
Receive(r, q) ==
    /\ pc[r] = "idle"
    /\ served < MaxRequests
    /\ served' = served + 1
    /\ req' = [req EXCEPT ![r] = q]

\* The response of r has been sent: the handler's frame is gone and the
\* server takes the next request.  The temporary directory stays as it is.
Retire(r) ==
    /\ pc[r] = "done"
    /\ pc' = [pc EXCEPT ![r] = "idle"]
    /\ req' = [req EXCEPT ![r] = NoReq]
    /\ loc' = [loc EXCEPT ![r] = NoLoc]
    /\ resp' = [resp EXCEPT ![r] = NoResp]
    /\ hist' = [hist EXCEPT ![r] = NoHist]
    /\ UNCHANGED <<registry, fs, tmpCount, served>>

\* tempfile.NamedTemporaryFile(delete=False) creates a file for r under a
\* name it has not handed out before.
NewName == tmpCount + 1

CreateTemp(r) ==
    /\ fs' = [fs EXCEPT ![NewName] = r]
    /\ tmpCount' = NewName

\* if os.path.exists(path): os.unlink(path)
UnlinkIfExists(path) ==
    fs' = [fs EXCEPT ![path] = 0]

\* What a try block ended with while its finally is still to run: the value
\* it returns, or the exception on its way out.
Returning(response) == [kind |-> "return", value |-> response]
Raised(exc) == [kind |-> "exception", exception |-> exc]

\* ------------------------------------------------------------ MCP endpoint

\* A dispatch whose last tools/call branch takes every other tool name for
\* convert_file.
McpRouteNoElse(request) ==
    IF request.method = "initialize" THEN "initialize"
    ELSE IF request.method = "tools/list" THEN "tools/list"
    ELSE IF request.method = "tools/call" THEN
        LET tool_name == DictGet(request.params, "name", NoneName)
        IN  IF tool_name = "list_supported_formats" THEN "list_supported_formats"
            ELSE "convert_file"
    ELSE "convert_file"

\* mcp_handler's branch for a request: the method, and for tools/call the
\* tool name (params.get("name") is None when the key is absent).
McpRoute(request) ==
    IF request.method = "initialize" THEN "initialize"
    ELSE IF request.method = "tools/list" THEN "tools/list"
    ELSE IF request.method = "tools/call" THEN
        LET tool_name == DictGet(request.params, "name", NoneName)
        IN  IF tool_name = "convert_file" THEN "convert_file"
            ELSE IF tool_name = "list_supported_formats" THEN "list_supported_formats"
            ELSE "unknown_tool"
    ELSE "unknown_method"

McpInitialize(r) ==
    \E q \in McpRequests :
        /\ Receive(r, q)
        /\ McpRoute(q) = "initialize"
        /\ Return(r, MCPResult(q.id,
                     [protocolVersion |-> "2024-11-05",
                      capabilities |-> [tools |-> EmptyDict],
                      serverInfo |-> [name |-> "file-converter", version |-> "1.0.0"]]),
                  hist[r])
        /\ UNCHANGED <<registry, fs, tmpCount, loc>>

McpToolsList(r) ==
    \E q \in McpRequests :
        /\ Receive(r, q)
        /\ McpRoute(q) = "tools/list"
        /\ Return(r, MCPResult(q.id,
                     [tools |-> << [name |-> "convert_file",
                                    description |-> SupportedConversions(registry),
                                    required |-> <<"input_format", "output_format", "file_content">>],
                                   [name |-> "list_supported_formats",
                                    description |-> <<>>,
                                    required |-> <<>>] >>]),
                  hist[r])
        /\ UNCHANGED <<registry, fs, tmpCount, loc>>

\* handle_list_formats.
McpListFormats(r) ==
    \E q \in McpRequests :
        /\ Receive(r, q)
        /\ McpRoute(q) = "list_supported_formats"
        /\ Return(r, MCPResult(q.id,
                     [content |-> << [type |-> "text", text |-> registry] >>]),
                  hist[r])
        /\ UNCHANGED <<registry, fs, tmpCount, loc>>

McpUnknownTool(r) ==
    \E q \in McpRequests :
        /\ Receive(r, q)
        /\ McpRoute(q) = "unknown_tool"
        /\ Return(r, MCPError(q.id, MethodNotFound,
                              <<"Unknown tool", DictGet(q.params, "name", NoneName)>>),
                  hist[r])
        /\ UNCHANGED <<registry, fs, tmpCount, loc>>

McpUnknownMethod(r) ==
    \E q \in McpRequests :
        /\ Receive(r, q)
        /\ McpRoute(q) = "unknown_method"
        /\ Return(r, MCPError(q.id, MethodNotFound, <<"Unknown method", q.method>>),
                  hist[r])
        /\ UNCHANGED <<registry, fs, tmpCount, loc>>

\* handle_convert_file up to "Create temporary files": the required
\* parameters, the dots, the module lookup and the base64 decoding.  Either
\* the response it returns there (go = FALSE) or the locals it goes on with.
McpCheck(modules, request_id, arguments) ==
    LET input_format == DictGet(arguments, "input_format", None)
        output_format == DictGet(arguments, "output_format", None)
        file_content == DictGet(arguments, "file_content", None)
    IN  IF ~(Truthy(input_format) /\ Truthy(output_format) /\ Truthy(file_content))
        THEN [go |-> FALSE, looked |-> FALSE, failure |-> "missing_field", loc |-> NoLoc,
              response |-> MCPError(request_id, InvalidParams,
                                    <<"Missing required parameters">>)]
        ELSE
        LET inf == EnsureDot(input_format)
            outf == EnsureDot(output_format)
            module == FindModule(modules, inf, outf)
            decoded == B64Decode(file_content)
            found == [NoLoc EXCEPT !.input_format = inf, !.output_format = outf,
                                   !.module = module]
        IN  IF module = 0
            THEN [go |-> FALSE, looked |-> TRUE, failure |-> "unsupported", loc |-> found,
                  response |-> MCPError(request_id, InvalidParams,
                                        <<"Conversion not supported", inf, outf>>)]
            ELSE IF ~decoded.ok
            THEN [go |-> FALSE, looked |-> TRUE, failure |-> "invalid_base64", loc |-> found,
                  response |-> MCPError(request_id, InvalidParams,
                                        <<"Invalid base64 file content">>)]
            ELSE [go |-> TRUE, looked |-> TRUE, failure |-> "none",
                  loc |-> [found EXCEPT !.file_data = decoded.data],
                  response |-> NoResp]

McpConvertFile(r) ==
    \E q \in McpRequests :
        /\ Receive(r, q)
        /\ McpRoute(q) = "convert_file"
        /\ LET c == McpCheck(registry, q.id, DictGet(q.params, "arguments", EmptyDict))
               h == [hist[r] EXCEPT !.looked = c.looked, !.failure = c.failure]
           IN  /\ loc' = [loc EXCEPT ![r] = c.loc]
               /\ IF c.go
                  THEN /\ pc' = [pc EXCEPT ![r] = "mcp_input"]
                       /\ hist' = [hist EXCEPT ![r] = h]
                       /\ UNCHANGED resp
                  ELSE Return(r, c.response, h)
        /\ UNCHANGED <<registry, fs, tmpCount>>

\* An outer except that answers with the client's error code.
McpConversionFailedAsParams(request_id, exc) ==
    MCPError(request_id, InvalidParams, <<"Conversion failed", exc>>)

\* The outer "except Exception as e" of handle_convert_file.
McpConversionFailed(request_id, exc) ==
    MCPError(request_id, InternalError, <<"Conversion failed", exc>>)

\* with tempfile.NamedTemporaryFile(suffix=input_format, delete=False): the
\* file is created, or the creation fails (staging failure).
McpCreateInput(r) ==
    /\ pc[r] = "mcp_input"
    /\ \/ /\ CreateTemp(r)
          /\ pc' = [pc EXCEPT ![r] = "mcp_write"]
          /\ loc' = [loc EXCEPT ![r].input_path = NewName]
          /\ hist' = [hist EXCEPT ![r].created = @ \cup {NewName}]
          /\ UNCHANGED resp
       \/ /\ Return(r, McpConversionFailed(req[r].id, "OSError"),
                    [hist[r] EXCEPT !.failure = "staging"])
          /\ UNCHANGED <<fs, tmpCount, loc>>
    /\ UNCHANGED <<registry, served, req>>

\* input_temp.write(file_data); leaving the with block closes the file and
\* keeps it (delete=False), also when write raises.
McpWriteInput(r) ==
    /\ pc[r] = "mcp_write"
    /\ \/ /\ pc' = [pc EXCEPT ![r] = "mcp_output"]
          /\ UNCHANGED <<resp, hist>>
       \/ Return(r, McpConversionFailed(req[r].id, "OSError"),
                 [hist[r] EXCEPT !.failure = "staging"])
    /\ UNCHANGED <<registry, served, fs, tmpCount, req, loc>>

\* with tempfile.NamedTemporaryFile(suffix=output_format, delete=False).
McpCreateOutput(r) ==
    /\ pc[r] = "mcp_output"
    /\ \/ /\ CreateTemp(r)
          /\ pc' = [pc EXCEPT ![r] = "mcp_convert"]
          /\ loc' = [loc EXCEPT ![r].output_path = NewName]
          /\ hist' = [hist EXCEPT ![r].created = @ \cup {NewName}]
          /\ UNCHANGED resp
       \/ /\ Return(r, McpConversionFailed(req[r].id, "OSError"),
                    [hist[r] EXCEPT !.failure = "staging"])
          /\ UNCHANGED <<fs, tmpCount, loc>>
    /\ UNCHANGED <<registry, served, req>>

\* module.convert(input_path, output_path): the module is opaque.  It
\* returns with the output file in place, raises, or returns although the
\* output file is not there afterwards.
ConvertOutcomes == {"ok", "raise", "no_output"}

ModuleConvert(r, outcome) ==
    /\ fs' = IF outcome = "no_output" THEN [fs EXCEPT ![loc[r].output_path] = 0] ELSE fs
    /\ hist' = [hist EXCEPT ![r].invoked = @ + 1,
                            ![r].failure = IF outcome = "raise" THEN "conversion"
                                           ELSE IF outcome = "no_output" THEN "no_output"
                                           ELSE @]

McpConvert(r) ==
    /\ pc[r] = "mcp_convert"
    /\ \E outcome \in ConvertOutcomes :
        /\ ModuleConvert(r, outcome)
        /\ IF outcome = "raise"
           THEN /\ pc' = [pc EXCEPT ![r] = "mcp_unlink_input"]
                /\ loc' = [loc EXCEPT ![r].pending = Raised("ConvertError")]
           ELSE /\ pc' = [pc EXCEPT ![r] = "mcp_read"]
                /\ UNCHANGED loc
    /\ UNCHANGED <<registry, served, tmpCount, req, resp>>

\* with open(output_path, 'rb') as f: converted_data = f.read(), then the
\* success response; open raises when the file is not there, and reading an
\* existing file may fail.
McpReadOutput(r) ==
    /\ pc[r] = "mcp_read"
    /\ pc' = [pc EXCEPT ![r] = "mcp_unlink_input"]
    /\ IF fs[loc[r].output_path] = 0
       THEN /\ loc' = [loc EXCEPT ![r].pending = Raised("FileNotFoundError")]
            /\ UNCHANGED hist
       ELSE \/ /\ loc' = [loc EXCEPT ![r].pending = Returning(
                        MCPResult(req[r].id,
                            [content |-> << [type |-> "text",
                                             text |-> <<"File converted successfully",
                                                        loc[r].input_format,
                                                        loc[r].output_format>>] >>]))]
               /\ UNCHANGED hist
            \/ /\ loc' = [loc EXCEPT ![r].pending = Raised("OSError")]
               /\ hist' = [hist EXCEPT ![r].failure = "staging"]
    /\ UNCHANGED <<registry, served, fs, tmpCount, req, resp>>

\* finally: if os.path.exists(input_path): os.unlink(input_path)
McpUnlinkInput(r) ==
    /\ pc[r] = "mcp_unlink_input"
    /\ UnlinkIfExists(loc[r].input_path)
    /\ pc' = [pc EXCEPT ![r] = "mcp_unlink_output"]
    /\ UNCHANGED <<registry, served, tmpCount, req, loc, resp, hist>>

\* A finally block that forgets the output file.
McpUnlinkOutputSkipped(r) ==
    /\ pc[r] = "mcp_unlink_output"
    /\ Return(r, IF loc[r].pending.kind = "exception"
                 THEN McpConversionFailed(req[r].id, loc[r].pending.exception)
                 ELSE loc[r].pending.value,
              hist[r])
    /\ UNCHANGED <<registry, served, fs, tmpCount, req, loc>>

\* finally: if os.path.exists(output_path): os.unlink(output_path); then the
\* try block's return value is returned, or its exception reaches the outer
\* except.
McpUnlinkOutput(r) ==
    /\ pc[r] = "mcp_unlink_output"
    /\ UnlinkIfExists(loc[r].output_path)
    /\ Return(r, IF loc[r].pending.kind = "exception"
                 THEN McpConversionFailed(req[r].id, loc[r].pending.exception)
                 ELSE loc[r].pending.value,
              hist[r])
    /\ UNCHANGED <<registry, served, tmpCount, req, loc>>

\* -------------------------------------------------------- REST POST /convert

\* convert_file up to "Create temporary files": the output_format field, its
\* dot, the input format from the filename and the module lookup.
RestCheck(modules, filename, output_format) ==
    IF output_format = None
    THEN [go |-> FALSE, looked |-> FALSE, failure |-> "missing_field", loc |-> NoLoc,
          response |-> ValidationError]
    ELSE IF output_format = <<>>
    THEN [go |-> FALSE, looked |-> FALSE, failure |-> "missing_field", loc |-> NoLoc,
          response |-> HTTPException(400, <<"output_format is required">>)]
    ELSE
    LET outf == EnsureDot(output_format)
        inf == RestInputFormat(filename)
        module == FindModule(modules, inf, outf)
        found == [NoLoc EXCEPT !.input_format = inf, !.output_format = outf,
                               !.module = module]
    IN  IF module = 0
        THEN [go |-> FALSE, looked |-> TRUE, failure |-> "unsupported", loc |-> found,
              response |-> HTTPException(400, <<"Conversion not supported", inf, outf>>)]
        ELSE [go |-> TRUE, looked |-> TRUE, failure |-> "none", loc |-> found,
              response |-> NoResp]

RestConvertFile(r) ==
    \E q \in RestRequests :
        /\ Receive(r, q)
        /\ LET c == RestCheck(registry, q.filename, q.output_format)
               h == [hist[r] EXCEPT !.looked = c.looked, !.failure = c.failure]
           IN  /\ loc' = [loc EXCEPT ![r] = c.loc]
               /\ IF c.go
                  THEN /\ pc' = [pc EXCEPT ![r] = "rest_input"]
                       /\ hist' = [hist EXCEPT ![r] = h]
                       /\ UNCHANGED resp
                  ELSE Return(r, c.response, h)
        /\ UNCHANGED <<registry, fs, tmpCount>>

\* with tempfile.NamedTemporaryFile(suffix=input_format, delete=False): no
\* try block is open yet, an exception leaves the handler.
RestCreateInput(r) ==
    /\ pc[r] = "rest_input"
    /\ \/ /\ CreateTemp(r)
          /\ pc' = [pc EXCEPT ![r] = "rest_write"]
          /\ loc' = [loc EXCEPT ![r].input_path = NewName]
          /\ hist' = [hist EXCEPT ![r].created = @ \cup {NewName}]
          /\ UNCHANGED resp
       \/ /\ Return(r, Unhandled("OSError"), [hist[r] EXCEPT !.failure = "staging"])
          /\ UNCHANGED <<fs, tmpCount, loc>>
    /\ UNCHANGED <<registry, served, req>>

\* content = await file.read(); input_temp.write(content); then
\* output_filename = os.path.splitext(file.filename)[0] + output_format.
RestWriteInput(r) ==
    /\ pc[r] = "rest_write"
    /\ \/ /\ pc' = [pc EXCEPT ![r] = "rest_output"]
          /\ loc' = [loc EXCEPT ![r].output_filename =
                        SplitExt(req[r].filename)[1] \o loc[r].output_format]
          /\ UNCHANGED <<resp, hist>>
       \/ /\ Return(r, Unhandled("OSError"), [hist[r] EXCEPT !.failure = "staging"])
          /\ UNCHANGED loc
    /\ UNCHANGED <<registry, served, fs, tmpCount, req>>

\* with tempfile.NamedTemporaryFile(suffix=output_format, delete=False).
RestCreateOutput(r) ==
    /\ pc[r] = "rest_output"
    /\ \/ /\ CreateTemp(r)
          /\ pc' = [pc EXCEPT ![r] = "rest_convert"]
          /\ loc' = [loc EXCEPT ![r].output_path = NewName]
          /\ hist' = [hist EXCEPT ![r].created = @ \cup {NewName}]
          /\ UNCHANGED resp
       \/ /\ Return(r, Unhandled("OSError"), [hist[r] EXCEPT !.failure = "staging"])
          /\ UNCHANGED <<fs, tmpCount, loc>>
    /\ UNCHANGED <<registry, served, req>>

\* try: module.convert(input_path, output_path); return FileResponse(...)
\* except Exception as e: raise HTTPException(status_code=500, ...)
RestConvert(r) ==
    /\ pc[r] = "rest_convert"
    /\ \E outcome \in ConvertOutcomes :
        /\ ModuleConvert(r, outcome)
        /\ loc' = [loc EXCEPT ![r].pending =
                     IF outcome = "raise"
                     THEN Returning(HTTPException(500, <<"Conversion failed", "ConvertError">>))
                     ELSE Returning(FileResponse(loc[r].output_path, loc[r].output_filename))]
    /\ pc' = [pc EXCEPT ![r] = "rest_unlink_input"]
    /\ UNCHANGED <<registry, served, tmpCount, req, resp>>

\* finally: "Cleanup input file": if os.path.exists(input_path):
\* os.unlink(input_path).  Nothing unlinks output_path.
RestUnlinkInput(r) ==
    /\ pc[r] = "rest_unlink_input"
    /\ UnlinkIfExists(loc[r].input_path)
    /\ Return(r, loc[r].pending.value, hist[r])
    /\ UNCHANGED <<registry, served, tmpCount, req, loc>>

Next == \E r \in Reqs :
    \/ McpInitialize(r)
    \/ McpToolsList(r)
    \/ McpListFormats(r)
    \/ McpUnknownTool(r)
    \/ McpUnknownMethod(r)
    \/ McpConvertFile(r)
    \/ McpCreateInput(r)
    \/ McpWriteInput(r)
    \/ McpCreateOutput(r)
    \/ McpConvert(r)
    \/ McpReadOutput(r)
    \/ McpUnlinkInput(r)
    \/ McpUnlinkOutput(r)
    \/ RestConvertFile(r)
    \/ RestCreateInput(r)
    \/ RestWriteInput(r)
    \/ RestCreateOutput(r)
    \/ RestConvert(r)
    \/ RestUnlinkInput(r)
    \/ Retire(r)

Spec == Init /\ [][Next]_vars

\* ------------------------------------------------------------------ claims

Done(r) == pc[r] = "done"
IsMcp(r) == req[r].adapter = "mcp"
IsRest(r) == req[r].adapter = "rest"
IsMcpConvert(r) == IsMcp(r) /\ McpRoute(req[r]) = "convert_file"

\* The request got as far as the try block: both staging files were created.
Staged(r) == loc[r].input_path # 0 /\ loc[r].output_path # 0

\* No staging file the request created exists.
StagingRemoved(r) == \A n \in hist[r].created : fs[n] = 0

\* C1: once an MCP convert_file request that created its staging files has
\* returned (conversion succeeded, convert raised, or reading the output back
\* failed), neither its input nor its output staging file exists.
C1_McpStagingRemoved ==
    \A r \in Reqs : (Done(r) /\ IsMcp(r) /\ Staged(r)) => StagingRemoved(r)

\* A request whose convert raised has returned, both files created and gone.
C1_Witness ==
    \E r \in Reqs :
        /\ Done(r) /\ IsMcp(r) /\ Staged(r)
        /\ Cardinality(hist[r].created) = 2
        /\ hist[r].failure = "conversion"
        /\ StagingRemoved(r)

\* C2: once a REST /convert request that created its staging files has
\* completed, no staging file it created remains (input and output).
C2_RestStagingRemoved ==
    \A r \in Reqs : (Done(r) /\ IsRest(r) /\ Staged(r)) => StagingRemoved(r)

\* A module declares the pair: the input format among its inputs and the
\* output format among its outputs.
Serves(formats, inf, outf) ==
    /\ "input" \in DOMAIN formats /\ \E i \in DOMAIN formats.input : formats.input[i] = inf
    /\ "output" \in DOMAIN formats /\ \E i \in DOMAIN formats.output : formats.output[i] = outf

\* C3: the module a conversion request resolves is the first module in
\* registration order that declares the pair; none when no module does.
C3_FirstMatch ==
    \A r \in Reqs : hist[r].looked =>
        LET m == loc[r].module
            inf == loc[r].input_format
            outf == loc[r].output_format
        IN  /\ m \in 0..Len(registry)
            /\ m # 0 => /\ Serves(registry[m], inf, outf)
                        /\ \A j \in 1..(m - 1) : ~Serves(registry[j], inf, outf)
            /\ m = 0 => \A j \in 1..Len(registry) : ~Serves(registry[j], inf, outf)

\* Two different modules declare the pair and the first one was resolved.
C3_Witness ==
    \E r \in Reqs :
        /\ hist[r].looked /\ loc[r].module = 1
        /\ Len(registry) = 2 /\ registry[1] # registry[2]
        /\ Serves(registry[2], loc[r].input_format, loc[r].output_format)

\* The formats a conversion request names, as sent (None: not sent).
RawInput(q) ==
    IF q.adapter = "rest" THEN SplitExt(q.filename)[2]
    ELSE DictGet(DictGet(q.params, "arguments", EmptyDict), "input_format", None)
RawOutput(q) ==
    IF q.adapter = "rest" THEN q.output_format
    ELSE DictGet(DictGet(q.params, "arguments", EmptyDict), "output_format", None)

IsConversion(r) == IsRest(r) \/ IsMcpConvert(r)
NamesPair(r) == IsConversion(r) /\ RawInput(req[r]) # None /\ RawOutput(req[r]) # None

\* Format normalisation as specified: lowercase, leading dot.
Normalize(s) == EnsureDot(Lower(s))

\* No registered module declares the (normalised) pair the request names.
Unserved(r) ==
    \A j \in 1..Len(registry) :
        ~Serves(registry[j], Normalize(RawInput(req[r])), Normalize(RawOutput(req[r])))

ClientError(r) ==
    IF IsRest(r) THEN resp[r].status_code = 400
    ELSE resp[r].error # NoneDict /\ resp[r].error.code = -32602

\* C4: a conversion request whose pair no registered module serves never
\* invokes a module's convert, creates no staging file, and ends with a
\* client error (HTTP 400, JSON-RPC -32602).
C4_UnsupportedNeverConverts ==
    \A r \in Reqs : (NamesPair(r) /\ Unserved(r)) =>
        /\ Done(r) /\ ClientError(r)
        /\ hist[r].invoked = 0
        /\ hist[r].created = {}

\* A registry with a module, a pair it does not serve, refused on REST.
C4_Witness ==
    \E r \in Reqs :
        /\ Done(r) /\ IsRest(r) /\ NamesPair(r) /\ Unserved(r)
        /\ Len(registry) > 0 /\ hist[r].looked
        /\ RawOutput(req[r]) # <<>>
        /\ resp[r].status_code = 400

\* Base64 as RFC 4648 defines it: quads of alphabet characters, the last one
\* possibly ending in one or two pad characters.
IsBase64(s) ==
    /\ Len(s) % 4 = 0
    /\ \A i \in 1..Len(s) :
         \/ IsB64Char(s[i])
         \/ /\ s[i] = "=" /\ i >= Len(s) - 1
            /\ \A j \in (i + 1)..Len(s) : s[j] = "="

FileContent(q) ==
    DictGet(DictGet(q.params, "arguments", EmptyDict), "file_content", None)

\* C5: an MCP convert_file request whose file_content is not base64 is
\* answered with InvalidParams and stages nothing, whatever the pair.
C5_BadBase64Rejected ==
    \A r \in Reqs :
        (IsMcpConvert(r) /\ Truthy(FileContent(req[r]))
            /\ ~IsBase64(FileContent(req[r]))) =>
        /\ hist[r].created = {}
        /\ hist[r].invoked = 0
        /\ Done(r) => (resp[r].error # NoneDict /\ resp[r].error.code = -32602)

\* The relative severity of a response: client-caused or server-caused.
Severity(r) ==
    IF IsRest(r)
    THEN IF resp[r].status_code \in 400..499 THEN "client"
         ELSE IF resp[r].status_code \in 500..599 THEN "server" ELSE "success"
    ELSE IF resp[r].error = NoneDict THEN "success"
         ELSE IF resp[r].error.code = -32602 THEN "client"
         ELSE IF resp[r].error.code = -32603 THEN "server" ELSE "other"

\* The severity both adapters are to report for a failure kind.
KindSeverity(kind) ==
    IF kind \in {"unsupported", "missing_field"} THEN "client" ELSE "server"

C7_NormalizedLookup ==
    \A r \in Reqs : hist[r].looked =>
        loc[r].module =
            FindModule(registry, Normalize(RawInput(req[r])), Normalize(RawOutput(req[r])))

HasResult(response) == response.result # NoneDict
HasError(response) == response.error # NoneDict

\* C8: every MCP response carries the id of its request and exactly one of
\* result and error.
C8_ResultXorError ==
    \A r \in Reqs : (Done(r) /\ IsMcp(r)) =>
        /\ resp[r].id = req[r].id
        /\ HasResult(resp[r]) # HasError(resp[r])

NoSuchMethod(q) ==
    \/ q.method \notin {"initialize", "tools/list", "tools/call"}
    \/ /\ q.method = "tools/call"
       /\ \/ "name" \notin DOMAIN q.params
          \/ q.params.name \notin {"convert_file", "list_supported_formats"}

\* C9: an unknown method, and a tools/call of an unknown or absent tool
\* name, is answered with MethodNotFound (-32601) without a registry lookup
\* for conversion, staging or a call of convert.
C9_MethodNotFound ==
    \A r \in Reqs : (IsMcp(r) /\ NoSuchMethod(req[r])) =>
        /\ Done(r)
        /\ resp[r].error # NoneDict /\ resp[r].error.code = -32601
        /\ ~hist[r].looked
        /\ hist[r].created = {}
        /\ hist[r].invoked = 0

\* A tools/call without a tool name has been answered.
C9_Witness ==
    \E r \in Reqs :
        /\ Done(r) /\ IsMcp(r)
        /\ req[r].method = "tools/call" /\ "name" \notin DOMAIN req[r].params
        /\ resp[r].error # NoneDict /\ resp[r].error.code = -32601

\* C10: every failure of the module's convert, a missing output file after a
\* reported success included, reaches the caller as a server error carrying a
\* message: HTTP 500 with detail on REST, -32603 on MCP.
C10_ConvertFailureReported ==
    \A r \in Reqs :
        (Done(r) /\ hist[r].failure \in {"conversion", "no_output"}) =>
        IF IsRest(r)
        THEN resp[r].kind = "HTTPException" /\ resp[r].status_code = 500
        ELSE resp[r].error # NoneDict /\ resp[r].error.code = -32603

\* Staging failed before the module was invoked: the input file could not be
\* created or written, or the output file could not be created.
StagingFailedBeforeConvert(r) ==
    /\ Done(r) /\ IsConversion(r)
    /\ hist[r].failure = "staging" /\ hist[r].invoked = 0

\* C11: when staging fails before the module is invoked (the write to the
\* input staging file fails, or the output staging file cannot be created),
\* every staging file the request had created is removed by the time it
\* returns its error, on both adapters.
C11_PartialStagingRemoved ==
    \A r \in Reqs : StagingFailedBeforeConvert(r) => StagingRemoved(r)

\* ------------------------------------------------ requests in flight at once

\* How many requests are in flight at once.
MaxInFlight == 2

\* One handler invocation per request: slot r serves one request and the
\* temporary files it creates carry r as their owner in fs.
Slots == 1..MaxInFlight

\* The registry of the concurrent runs: the one module every request uses.
SameModule == << [input |-> <<PNG>>, output |-> <<JPG>>] >>

\* The conversions sent at once: a .png to .jpg conversion on each adapter.
InFlightRequests ==
    { MCPRequest("1", "tools/call",
                 [name |-> "convert_file",
                  arguments |-> Arguments(<<"p","n","g">>, <<"j","p","g">>,
                                          <<"Q","U","J","D">>)]),
      [adapter |-> "rest", filename |-> <<"a",".","p","n","g">>,
       output_format |-> <<"j","p","g">>] }

ConcInit ==
    /\ registry = SameModule
    /\ fs = [n \in Names |-> 0]
    /\ tmpCount = 0
    /\ served = 0
    /\ pc = [r \in Slots |-> "idle"]
    /\ req = [r \in Slots |-> NoReq]
    /\ loc = [r \in Slots |-> NoLoc]
    /\ resp = [r \in Slots |-> NoResp]
    /\ hist = [r \in Slots |-> NoHist]

ConcMcpConvertFile(r) == McpConvertFile(r) /\ req'[r] \in InFlightRequests
ConcRestConvertFile(r) == RestConvertFile(r) /\ req'[r] \in InFlightRequests

\* The handlers' steps of all slots, interleaved in every order.  (A single
\* event loop runs a handler without interruption between two awaits, which
\* is one of these orders; several server processes share the temporary
\* directory and interleave freely.)
ConcNext == \E r \in Slots :
    \/ ConcMcpConvertFile(r)
    \/ McpCreateInput(r)
    \/ McpWriteInput(r)
    \/ McpCreateOutput(r)
    \/ McpConvert(r)
    \/ McpReadOutput(r)
    \/ McpUnlinkInput(r)
    \/ McpUnlinkOutput(r)
    \/ ConcRestConvertFile(r)
    \/ RestCreateInput(r)
    \/ RestWriteInput(r)
    \/ RestCreateOutput(r)
    \/ RestConvert(r)
    \/ RestUnlinkInput(r)

ConcSpec == ConcInit /\ [][ConcNext]_vars

InFlight(r) == pc[r] \notin {"idle", "done"}

\* The staging files a request holds the names of.
Paths(r) == {loc[r].input_path, loc[r].output_path} \ {0}

\* No two in-flight requests use the same staging file.
DisjointStaging ==
    \A r1, r2 \in Slots :
        (r1 # r2 /\ InFlight(r1) /\ InFlight(r2)) => Paths(r1) \cap Paths(r2) = {}

\* The files a request is about to read (the module reads input_path, the
\* MCP handler reads output_path back) are its own or are gone.
OwnReads ==
    \A r \in Slots :
        /\ pc[r] \in {"mcp_convert", "rest_convert"} => fs[loc[r].input_path] \in {0, r}
        /\ pc[r] = "mcp_read" => fs[loc[r].output_path] \in {0, r}

\* A step of request r removes only files of r.
OwnRemovals ==
    \A r \in Slots : \A n \in Names :
        (pc'[r] # pc[r] /\ fs[n] # 0 /\ fs'[n] = 0) => fs[n] = r

\* Once every request has completed no staging file remains.
NoneRemain ==
    (\A r \in Slots : ~InFlight(r)) => \A n \in Names : fs[n] = 0

\* Isolation alone: disjoint staging files, own reads, own removals.
StagingIsolated == [](DisjointStaging /\ OwnReads) /\ [][OwnRemovals]_vars

\* C12: for requests in flight at once against the same module, under any
\* interleaving of their steps, no two in-flight requests use the same
\* staging file, no request reads or removes a staging file of another
\* request, and once all requests have completed no staging file remains.
C12_ConcurrentStaging ==
    [](DisjointStaging /\ OwnReads /\ NoneRemain) /\ [][OwnRemovals]_vars

====
